---- MODULE Spec2Model ----
(***************************************************************************)
(* Medicine authenticity back end: the MedicineAuthenticity ledger         *)
(* contract, the products table of the metadata store and the CLI engine   *)
(* (addProduct, verifyProduct, addStage, getProductHistory,                *)
(* grantAdminRole) that reconciles the two.                                *)
(*                                                                         *)
(* A ledger transaction or view call is one atomic step (the ledger        *)
(* serialises them).  An engine operation is a process that takes one step *)
(* per boundary call it awaits; everything the handler does synchronously  *)
(* before or after that call belongs to the same step.                     *)
(*                                                                         *)
(* Specifications:                                                         *)
(*   Spec            one terminal running CLI commands one after another,  *)
(*                   every operation but addStage, and out-of-band writes  *)
(*                   to the store                                          *)
(*   SpecHistory     one terminal registering products, appending stages   *)
(*                   and reading histories while blocks go by              *)
(*   SpecConcurrent  NumProcs terminals registering and verifying          *)
(*   SpecInterleaved NumProcs terminals of the ledger administrator       *)
(*                   registering, verifying, appending stages and reading  *)
(*                   histories at once                                     *)
(*   SpecLedger      the contract alone, called by any account             *)
(*   SpecEngine      one terminal running all five commands                *)
(*   SpecRestart     one terminal registering and verifying while the      *)
(*                   ledger node can be restarted and redeployed           *)
(*   SpecCodec       the fingerprint computations of addProduct and        *)
(*                   verifyProduct alone                                   *)
(***************************************************************************)
EXTENDS Integers, Sequences, FiniteSets, TLC

VARIABLES
    products,    \* ledger: mapping(string => Product)
    admins,      \* ledger: holders of ADMIN_ROLE
    roots,       \* ledger: holders of DEFAULT_ADMIN_ROLE
    blockTime,   \* ledger: block.timestamp of the block being built
    rows,        \* store: the rows of table products
    pc,          \* engine: where each CLI process stands
    call,        \* engine: the locals of the operation a process is running
    res,         \* engine: what the last finished operation returned or threw
    inserted,    \* history: the row each successful addProduct inserted
    stageLog,    \* history: the stage names of the addStage transactions included
    mutated,     \* history: the product ids whose row was written out-of-band
    unanswered,  \* history: whether some boundary call of the engine went unanswered
    audit,       \* history: per product, how far the sequence verified authentic,
                 \*          row written out-of-band, row restored has got
    lastTx       \* history: the last transaction sent to the contract directly

vars ==
    <<products, admins, roots, blockTime, rows, pc, call, res, inserted, stageLog,
      mutated, unanswered, audit, lastTx>>

-----------------------------------------------------------------------------
(* Bounds of the model *)

NumProcs == 2
MaxNow == 1
MaxBlockTime == 1
MaxStages == 2
MaxMutated == 1

(* Program constants *)

ShelfLifeYears == 2
MsPerSecond == 1000

Procs == DOMAIN pc
Deployer == "deployer"
Identities == {Deployer, "alice"}
ProductIDs == {"P1", "P2"}
ProductTypes == {"Aspirin"}
BatchNumbers == {"B001"}
StageNames == {"Packaged", "Shipped"}
Instants == 0..MaxNow
LedgerKeys == ProductIDs \cup {""}

-----------------------------------------------------------------------------
(* Errors.  kind is the failure of the taxonomy, src the layer that raised  *)
(* it, mentionsProduct whether the message contains the word "Product".     *)

NoError == [kind |-> "none", src |-> "none", mentionsProduct |-> FALSE]

Error(kind, src, mp) == [kind |-> kind, src |-> src, mentionsProduct |-> mp]

(* A boundary call that was not answered. *)
Unavailable(src) == Error("Unavailable", src, FALSE)

-----------------------------------------------------------------------------
(* Fingerprint codec *)

(* Date.prototype.toISOString: the one text form the engine writes. *)
toISOString(t) == "T" \o ToString(t) \o "Z"

(* Another text form of the same instant that new Date(text) accepts, such  *)
(* as one with an explicit +00:00 offset.  Only an out-of-band writer       *)
(* produces it.                                                             *)
OffsetString(t) == "T" \o ToString(t) \o "+00:00"

InvalidDateText == "not a date"

ParsableInstants ==
    0..(MaxNow + ShelfLifeYears + 1) \cup {b * MsPerSecond : b \in 0..MaxBlockTime}

DateTexts ==
    {toISOString(t) : t \in ParsableInstants}
        \cup {OffsetString(t) : t \in ParsableInstants} \cup {InvalidDateText}

(* new Date(text): the instant the text denotes, NaN for an invalid date. *)
NaN == -1

NewDate(text) ==
    IF \E t \in ParsableInstants : text \in {toISOString(t), OffsetString(t)}
    THEN CHOOSE t \in ParsableInstants : text \in {toISOString(t), OffsetString(t)}
    ELSE NaN

(* expiryDate.setFullYear(expiryDate.getFullYear() + 2) *)
ExpiryOf(manufacturingDate) == manufacturingDate + ShelfLifeYears

(* EncodeString writing the bare characters, as plain concatenation does. *)
EncodeString_Bare(s) == s

(* abiCoder.encode(["string", ...], values): every value is written with    *)
(* its length in front, so the encoding tells where each field ends.        *)
EncodeString(s) == ToString(Len(s)) \o ":" \o s

AbiEncode(values) ==
    EncodeString(values[1]) \o EncodeString(values[2]) \o EncodeString(values[3])
        \o EncodeString(values[4]) \o EncodeString(values[5])

(* ethers.keccak256: a "0x" hex digest; collision-free, so modelled as an   *)
(* injective function of the bytes hashed.                                  *)
keccak256(bytes) == "0x" \o bytes

ProductHash(productID, productType, batchNumber, mfgDateStr, expiryDateStr) ==
    keccak256(AbiEncode(<<productID, productType, batchNumber, mfgDateStr, expiryDateStr>>))

-----------------------------------------------------------------------------
(* Ledger: contract MedicineAuthenticity *)

NoProduct == [productID |-> "", productHash |-> "", stages |-> <<>>, exists |-> FALSE]

Stage(stageName, authenticator, timestamp) ==
    [stageName |-> stageName, authenticator |-> authenticator, timestamp |-> timestamp]

(* modifier onlyRole(ADMIN_ROLE) *)
onlyAdmin(caller) == caller \in admins

(* AddProductError without require(!products[_productID].exists). *)
AddProductError_Overwriting(caller, productID, productHash) ==
    IF ~onlyAdmin(caller) THEN Error("Unauthorized", "ledger", FALSE)
    ELSE IF productID = "" THEN Error("InvalidArgument", "ledger", TRUE)
    ELSE IF productHash = "" THEN Error("InvalidArgument", "ledger", TRUE)
    ELSE NoError

(* The revert of addProduct(_productID, _productHash), NoError if it runs. *)
AddProductError(caller, productID, productHash) ==
    IF ~onlyAdmin(caller) THEN Error("Unauthorized", "ledger", FALSE)
    ELSE IF productID = "" THEN Error("InvalidArgument", "ledger", TRUE)
    ELSE IF productHash = "" THEN Error("InvalidArgument", "ledger", TRUE)
    ELSE IF products[productID].exists THEN Error("AlreadyExists", "ledger", TRUE)
    ELSE NoError

(* AddProductEffect storing the product's ID where its hash belongs. *)
AddProductEffect_StoringID(productID, productHash) ==
    [products EXCEPT ![productID] =
        [@ EXCEPT !.productID = productID, !.productHash = productID, !.exists = TRUE]]

AddProductEffect(productID, productHash) ==
    [products EXCEPT ![productID] =
        [@ EXCEPT !.productID = productID, !.productHash = productHash, !.exists = TRUE]]

(* AddStageError without the onlyRole(ADMIN_ROLE) modifier. *)
AddStageError_AnyCaller(caller, productID, stageName) ==
    IF stageName = "" THEN Error("InvalidArgument", "ledger", FALSE)
    ELSE IF ~products[productID].exists THEN Error("NotFound", "ledger", TRUE)
    ELSE NoError

(* AddStageError without require(products[_productID].exists). *)
AddStageError_UnknownProduct(caller, productID, stageName) ==
    IF ~onlyAdmin(caller) THEN Error("Unauthorized", "ledger", FALSE)
    ELSE IF stageName = "" THEN Error("InvalidArgument", "ledger", FALSE)
    ELSE NoError

(* The revert of addStage(_productID, _stageName), NoError if it runs. *)
AddStageError(caller, productID, stageName) ==
    IF ~onlyAdmin(caller) THEN Error("Unauthorized", "ledger", FALSE)
    ELSE IF stageName = "" THEN Error("InvalidArgument", "ledger", FALSE)
    ELSE IF ~products[productID].exists THEN Error("NotFound", "ledger", TRUE)
    ELSE NoError

(* AddStageEffect putting the new event in front of the older ones. *)
AddStageEffect_Prepending(caller, productID, stageName) ==
    [products EXCEPT ![productID].stages = <<Stage(stageName, caller, blockTime)>> \o @]

AddStageEffect(caller, productID, stageName) ==
    [products EXCEPT ![productID].stages = Append(@, Stage(stageName, caller, blockTime))]

(* getProductHash and getProductHistory revert for an unknown product. *)
GetProductHashError(productID) ==
    IF ~products[productID].exists THEN Error("NotFound", "ledger", TRUE) ELSE NoError

(* GetProductHistoryError without require(products[_productID].exists). *)
GetProductHistoryError_Unchecked(productID) == NoError

GetProductHistoryError(productID) ==
    IF ~products[productID].exists THEN Error("NotFound", "ledger", TRUE) ELSE NoError

productExists(productID) == products[productID].exists

(* GrantRoleError letting every holder of ADMIN_ROLE grant it. *)
GrantRoleError_AdminSuffices(caller) ==
    IF caller \notin admins THEN Error("Unauthorized", "ledger", FALSE) ELSE NoError

(* grantRole(ADMIN_ROLE, account) is open to the holders of ADMIN_ROLE's    *)
(* admin role, which the constructor sets to DEFAULT_ADMIN_ROLE.            *)
GrantRoleError(caller) ==
    IF caller \notin roots THEN Error("Unauthorized", "ledger", FALSE) ELSE NoError

(* The room the model leaves for one more stage event on the ledger. *)
RECURSIVE StageCount(_)
StageCount(keys) ==
    IF keys = {} THEN 0
    ELSE LET k == CHOOSE x \in keys : TRUE
         IN  Len(products[k].stages) + StageCount(keys \ {k})

StageRoom == StageCount(LedgerKeys) < MaxStages

-----------------------------------------------------------------------------
(* Metadata store: table products, primary key product_id *)

Row(productID, productType, batchNumber, mfgDateStr, expiryDateStr, productHash) ==
    [product_id |-> productID, product_type |-> productType,
     batch_number |-> batchNumber, manufacturing_date |-> mfgDateStr,
     expiry_date |-> expiryDateStr, product_hash |-> productHash]

(* SELECT * FROM products WHERE product_id = $1 *)
Select(productID) == {r \in rows : r.product_id = productID}

(* InsertError of a table without its primary key. *)
InsertError_NoKey(row) == NoError

(* INSERT INTO products ...: the primary key rejects a second row. *)
InsertError(row) ==
    IF Select(row.product_id) # {} THEN Error("Conflict", "store", FALSE) ELSE NoError

-----------------------------------------------------------------------------
(* Engine: the CLI's operations.  call holds the locals of a running        *)
(* operation; res holds what a finished one returned or threw.              *)

IdleCall ==
    [op |-> "none", wallet |-> "", productID |-> "", productType |-> "",
     batchNumber |-> "",
     mfgDateStr |-> "", expiryDateStr |-> "", productHash |-> "", metadata |-> {},
     exists |-> FALSE,
     \* history: the first failure a boundary call of this operation answered with,
     \* whether a successful addProduct of productID had returned at its start, and
     \* whether the row it inserted was then changed in a fingerprinted column
     boundaryError |-> NoError, registeredBefore |-> FALSE, rowChanged |-> FALSE,
     \* history: what audit held for productID when the operation started
     phase |-> "none"]

NoResult ==
    [op |-> "none", status |-> "none", error |-> NoError, caller |-> "",
     account |-> "", productID |-> "", productType |-> "", batchNumber |-> "",
     productHash |-> "", stageName |-> "",
     isAuthentic |-> FALSE, databaseHash |-> "", blockchainHash |-> "",
     metadata |-> {}, history |-> <<>>, exists |-> FALSE,
     boundaryError |-> NoError, registeredBefore |-> FALSE, rowChanged |-> FALSE,
     phase |-> "none"]

(* What a finished operation leaves of its call. *)
ResultOf(c) ==
    [NoResult EXCEPT !.op = c.op, !.caller = c.wallet, !.productID = c.productID,
                     !.productType = c.productType, !.batchNumber = c.batchNumber,
                     !.exists = c.exists, !.metadata = c.metadata,
                     !.boundaryError = c.boundaryError,
                     !.registeredBefore = c.registeredBefore,
                     !.rowChanged = c.rowChanged, !.phase = c.phase]

(* catch (error) { console.error(...); throw error; } *)
Threw(c, e) == [ResultOf(c) EXCEPT !.status = "threw", !.error = e]

Returned(c) == [ResultOf(c) EXCEPT !.status = "returned"]

(* The first boundary failure of an operation is kept in its call. *)
Noting(c, e) == IF c.boundaryError = NoError THEN [c EXCEPT !.boundaryError = e] ELSE c

Finish(pr, r) ==
    /\ pc' = [pc EXCEPT ![pr] = "done"]
    /\ res' = [res EXCEPT ![pr] = r]
    /\ call' = [call EXCEPT ![pr] = IdleCall]
    /\ unanswered' = (unanswered \/ r.boundaryError.kind = "Unavailable")
    /\ audit' = IF r.op = "verifyProduct" /\ r.status = "returned" /\ r.isAuthentic
                THEN [audit EXCEPT ![r.productID] = "authentic"]
                ELSE audit

Goto(pr, label, c) ==
    /\ pc' = [pc EXCEPT ![pr] = label]
    /\ call' = [call EXCEPT ![pr] = c]
    /\ unanswered' = (unanswered \/ c.boundaryError.kind = "Unavailable")
    /\ UNCHANGED <<res, audit>>

(* addProduct, the try block around productExists: what it throws, given    *)
(* the failure the call answered with (NoError if none) and its value.      *)
ExistsCheckThrown(failure, exists) ==
    IF failure # NoError THEN failure
    ELSE IF exists THEN Error("AlreadyExists", "engine", TRUE)
    ELSE NoError

(* addProduct, the catch block of that try: what it throws again. *)
ExistsCheckRethrown(thrown) ==
    IF thrown # NoError /\ ~thrown.mentionsProduct THEN thrown ELSE NoError

(* addProduct issuing the INSERT before the ledger transaction. *)
addProduct_InsertFirst(pr, wallet, productID, productType, batchNumber, now) ==
    /\ pc[pr] = "idle"
    /\ productID # "" /\ productType # "" /\ batchNumber # ""
    /\ UNCHANGED <<products, admins, roots, blockTime, rows, inserted, stageLog,
                   mutated, lastTx>>
    /\ LET mfgDateStr == toISOString(now)
           expiryDateStr == toISOString(ExpiryOf(now))
       IN  Goto(pr, "addProduct_insert",
                [IdleCall EXCEPT
                   !.op = "addProduct", !.wallet = wallet, !.productID = productID,
                   !.productType = productType, !.batchNumber = batchNumber,
                   !.mfgDateStr = mfgDateStr, !.expiryDateStr = expiryDateStr,
                   !.productHash = ProductHash(productID, productType, batchNumber,
                                               mfgDateStr, expiryDateStr),
                   !.registeredBefore = (inserted[productID] # {})])

(* addProduct up to its first await and through productExists. *)
addProduct(pr, wallet, productID, productType, batchNumber, now) ==
    /\ pc[pr] = "idle"
    /\ UNCHANGED <<products, admins, roots, blockTime, rows, inserted, stageLog,
                   mutated, lastTx>>
    /\ LET mfgDateStr == toISOString(now)
           expiryDateStr == toISOString(ExpiryOf(now))
           c == [IdleCall EXCEPT
                   !.op = "addProduct", !.wallet = wallet, !.productID = productID,
                   !.productType = productType, !.batchNumber = batchNumber,
                   !.mfgDateStr = mfgDateStr, !.expiryDateStr = expiryDateStr,
                   !.productHash = ProductHash(productID, productType, batchNumber,
                                               mfgDateStr, expiryDateStr),
                   !.registeredBefore = (inserted[productID] # {})]
           afterCheck(cc, failure, exists) ==
               LET rethrown == ExistsCheckRethrown(ExistsCheckThrown(failure, exists))
               IN  IF rethrown # NoError THEN Finish(pr, Threw(cc, rethrown))
                   ELSE Goto(pr, "addProduct_tx", cc)
       IN  IF productID = "" \/ productType = "" \/ batchNumber = ""
           THEN Finish(pr, Threw(c, Error("InvalidArgument", "engine", TRUE)))
           ELSE \/ afterCheck([c EXCEPT !.exists = productExists(productID)],
                              NoError, productExists(productID))
                \/ \E mp \in BOOLEAN :
                      \* not answered; ethers puts the call's arguments into the
                      \* message, so it may or may not contain the word "Product"
                      LET e == Error("Unavailable", "ledger", mp)
                      IN  afterCheck(Noting(c, e), e, FALSE)

(* AfterAddProductTx going on to the INSERT whatever the transaction did. *)
AfterAddProductTx_IgnoringFailure(pr, c, failure) ==
    Goto(pr, "addProduct_insert", Noting(c, failure))

(* Where addProduct goes once contract.addProduct and tx.wait() are through. *)
(* AfterAddProductTx taking the contract's 'Product already exists' for a *)
(* registration that is already on the ledger and going on to the INSERT. *)
AfterAddProductTx_InsertIfExists(pr, c, failure) ==
    IF failure # NoError /\ failure.kind # "AlreadyExists"
    THEN Finish(pr, Threw(Noting(c, failure), failure))
    ELSE Goto(pr, "addProduct_insert", c)

AfterAddProductTx(pr, c, failure) ==
    IF failure # NoError THEN Finish(pr, Threw(Noting(c, failure), failure))
    ELSE Goto(pr, "addProduct_insert", c)

(* addProduct: contract.addProduct(productID, productHash) and tx.wait(). *)
addProductTx(pr) ==
    /\ pc[pr] = "addProduct_tx"
    /\ UNCHANGED <<admins, roots, blockTime, rows, inserted, stageLog, mutated, lastTx>>
    /\ LET c == call[pr]
           revert == AddProductError(c.wallet, c.productID, c.productHash)
       IN  \/ /\ revert = NoError
              /\ products' = AddProductEffect(c.productID, c.productHash)
              /\ AfterAddProductTx(pr, c, NoError)
           \/ /\ revert # NoError
              /\ UNCHANGED products
              /\ AfterAddProductTx(pr, c, revert)
           \/ \* the transaction never reached the ledger
              /\ UNCHANGED products
              /\ AfterAddProductTx(pr, c, Unavailable("ledger"))
           \/ \* the transaction was included and tx.wait() was not answered
              /\ revert = NoError
              /\ products' = AddProductEffect(c.productID, c.productHash)
              /\ AfterAddProductTx(pr, c, Unavailable("ledger"))

(* What addProduct ends with once the INSERT is through. *)
AfterInsert(c, failure) ==
    IF failure # NoError THEN Threw(Noting(c, failure), failure)
    ELSE [Returned(c) EXCEPT !.productHash = c.productHash]

(* addProduct: the INSERT and the return. *)
addProductInsert(pr) ==
    /\ pc[pr] = "addProduct_insert"
    /\ UNCHANGED <<products, admins, roots, blockTime, stageLog, mutated, lastTx>>
    /\ LET c == call[pr]
           row == Row(c.productID, c.productType, c.batchNumber, c.mfgDateStr,
                      c.expiryDateStr, c.productHash)
           conflict == InsertError(row)
       IN  \/ /\ conflict = NoError
              /\ rows' = rows \cup {row}
              /\ inserted' = [inserted EXCEPT ![c.productID] = {row}]
              /\ Finish(pr, AfterInsert(c, NoError))
           \/ /\ conflict # NoError
              /\ UNCHANGED <<rows, inserted>>
              /\ Finish(pr, AfterInsert(c, conflict))
           \/ /\ UNCHANGED <<rows, inserted>>
              /\ Finish(pr, AfterInsert(c, Unavailable("store")))

(* The columns of a row that go into its fingerprint. *)
Fingerprinted(rs) ==
    {<<r.product_id, r.product_type, r.batch_number, r.manufacturing_date, r.expiry_date>> :
        r \in rs}

(* verifyProduct reading the row as addProduct inserted it, as a cache of   *)
(* the table filled at registration would give it.                          *)
verifyProduct_Cached(pr, productID) ==
    /\ pc[pr] = "idle"
    /\ UNCHANGED <<products, admins, roots, blockTime, rows, inserted, stageLog,
                   mutated, lastTx>>
    /\ LET cached == IF inserted[productID] # {} THEN inserted[productID]
                     ELSE Select(productID)
           c == [IdleCall EXCEPT
                   !.op = "verifyProduct", !.productID = productID,
                   !.registeredBefore = (inserted[productID] # {}),
                   !.rowChanged = (Fingerprinted(Select(productID))
                                      # Fingerprinted(inserted[productID])),
                   !.phase = audit[productID]]
       IN  IF productID = ""
           THEN Finish(pr, Threw(c, Error("InvalidArgument", "engine", TRUE)))
           ELSE \/ /\ cached = {}
                   /\ Finish(pr, Threw(c, Error("NotFound", "store", TRUE)))
                \/ /\ cached # {}
                   /\ Goto(pr, "verifyProduct_hash", [c EXCEPT !.metadata = cached])
                \/ Finish(pr, Threw(Noting(c, Unavailable("store")), Unavailable("store")))

(* verifyProduct up to and through the SELECT. *)
verifyProduct(pr, productID) ==
    /\ pc[pr] = "idle"
    /\ UNCHANGED <<products, admins, roots, blockTime, rows, inserted, stageLog,
                   mutated, lastTx>>
    /\ LET c == [IdleCall EXCEPT
                   !.op = "verifyProduct", !.productID = productID,
                   !.registeredBefore = (inserted[productID] # {}),
                   !.rowChanged = (Fingerprinted(Select(productID))
                                      # Fingerprinted(inserted[productID])),
                   !.phase = audit[productID]]
       IN  IF productID = ""
           THEN Finish(pr, Threw(c, Error("InvalidArgument", "engine", TRUE)))
           ELSE \/ /\ Select(productID) = {}
                   /\ Finish(pr, Threw(c, Error("NotFound", "store", TRUE)))
                \/ /\ Select(productID) # {}
                   /\ Goto(pr, "verifyProduct_hash", [c EXCEPT !.metadata = Select(productID)])
                \/ Finish(pr, Threw(Noting(c, Unavailable("store")), Unavailable("store")))

(* VerificationResult with the type and the batch hashed in the other order. *)
VerificationResult_FieldsSwapped(c, blockchainHash) ==
    LET metadata == CHOOSE r \in c.metadata : TRUE
        mfg == NewDate(metadata.manufacturing_date)
        expiry == NewDate(metadata.expiry_date)
        calculatedHash ==
            ProductHash(metadata.product_id, metadata.batch_number,
                        metadata.product_type, toISOString(mfg), toISOString(expiry))
    IN  IF mfg = NaN \/ expiry = NaN
        THEN Threw(c, Error("RangeError", "engine", FALSE))
        ELSE [Returned(c) EXCEPT !.isAuthentic = (calculatedHash = blockchainHash),
                                 !.databaseHash = calculatedHash,
                                 !.blockchainHash = blockchainHash,
                                 !.metadata = c.metadata]

(* VerificationResult trusting the product_hash column instead of recomputing. *)
VerificationResult_StoredHash(c, blockchainHash) ==
    LET metadata == CHOOSE r \in c.metadata : TRUE
        mfg == NewDate(metadata.manufacturing_date)
        expiry == NewDate(metadata.expiry_date)
    IN  IF mfg = NaN \/ expiry = NaN
        THEN Threw(c, Error("RangeError", "engine", FALSE))
        ELSE [Returned(c) EXCEPT !.isAuthentic = (metadata.product_hash = blockchainHash),
                                 !.databaseHash = metadata.product_hash,
                                 !.blockchainHash = blockchainHash,
                                 !.metadata = c.metadata]

(* VerificationResult giving the hashes and the row only when they agree. *)
VerificationResult_VerdictOnly(c, blockchainHash) ==
    LET metadata == CHOOSE r \in c.metadata : TRUE
        mfg == NewDate(metadata.manufacturing_date)
        expiry == NewDate(metadata.expiry_date)
        calculatedHash ==
            ProductHash(metadata.product_id, metadata.product_type,
                        metadata.batch_number, toISOString(mfg), toISOString(expiry))
    IN  IF mfg = NaN \/ expiry = NaN
        THEN Threw(c, Error("RangeError", "engine", FALSE))
        ELSE IF calculatedHash = blockchainHash
        THEN [Returned(c) EXCEPT !.isAuthentic = TRUE,
                                 !.databaseHash = calculatedHash,
                                 !.blockchainHash = blockchainHash,
                                 !.metadata = c.metadata]
        ELSE [Returned(c) EXCEPT !.metadata = {}]

(* verifyProduct, after getProductHash: the recomputation from the row read, *)
(* the comparison and the result.                                            *)
VerificationResult(c, blockchainHash) ==
    LET metadata == CHOOSE r \in c.metadata : TRUE
        mfg == NewDate(metadata.manufacturing_date)
        expiry == NewDate(metadata.expiry_date)
        calculatedHash ==
            ProductHash(metadata.product_id, metadata.product_type,
                        metadata.batch_number, toISOString(mfg), toISOString(expiry))
    IN  IF mfg = NaN \/ expiry = NaN
        THEN \* toISOString of an invalid date throws a RangeError
             Threw(c, Error("RangeError", "engine", FALSE))
        ELSE [Returned(c) EXCEPT !.isAuthentic = (calculatedHash = blockchainHash),
                                 !.databaseHash = calculatedHash,
                                 !.blockchainHash = blockchainHash,
                                 !.metadata = c.metadata]

(* verifyProduct: getProductHash and the rest. *)
verifyProductHash(pr) ==
    /\ pc[pr] = "verifyProduct_hash"
    /\ UNCHANGED <<products, admins, roots, blockTime, rows, inserted, stageLog,
                   mutated, lastTx>>
    /\ LET c == call[pr]
           revert == GetProductHashError(c.productID)
       IN  \/ /\ revert # NoError
              /\ Finish(pr, Threw(Noting(c, revert), revert))
           \/ /\ revert = NoError
              /\ Finish(pr, VerificationResult(c, products[c.productID].productHash))
           \/ Finish(pr, Threw(Noting(c, Unavailable("ledger")), Unavailable("ledger")))

(* addStage: the whole operation, its one transaction included. *)
addStage(pr, wallet, productID, stageName) ==
    /\ pc[pr] = "idle"
    /\ UNCHANGED <<admins, roots, blockTime, rows, inserted, mutated, lastTx>>
    /\ LET c == [IdleCall EXCEPT !.op = "addStage", !.wallet = wallet,
                                 !.productID = productID]
           revert == AddStageError(wallet, productID, stageName)
           included == /\ products' = AddStageEffect(wallet, productID, stageName)
                       /\ stageLog' = [stageLog EXCEPT ![productID] = Append(@, stageName)]
           done(cc) == [Returned(cc) EXCEPT !.stageName = stageName]
           failed(cc, e) == [Threw(Noting(cc, e), e) EXCEPT !.stageName = stageName]
       IN  IF productID = "" \/ stageName = ""
           THEN /\ UNCHANGED <<products, stageLog>>
                /\ Finish(pr, [Threw(c, Error("InvalidArgument", "engine", TRUE))
                                  EXCEPT !.stageName = stageName])
           ELSE \/ /\ revert = NoError
                   /\ StageRoom
                   /\ included
                   /\ Finish(pr, done(c))
                \/ /\ revert # NoError
                   /\ UNCHANGED <<products, stageLog>>
                   /\ Finish(pr, failed(c, revert))
                \/ \* the transaction never reached the ledger
                   /\ UNCHANGED <<products, stageLog>>
                   /\ Finish(pr, failed(c, Unavailable("ledger")))
                \/ \* the transaction was included and tx.wait() was not answered
                   /\ revert = NoError
                   /\ StageRoom
                   /\ included
                   /\ Finish(pr, failed(c, Unavailable("ledger")))

(* stages.map(...): each timestamp becomes the ISO text of its instant. *)
FormatStages(stages) ==
    [i \in 1..Len(stages) |->
        [stageName |-> stages[i].stageName, authenticator |-> stages[i].authenticator,
         timestamp |-> toISOString(stages[i].timestamp * MsPerSecond)]]

(* getProductHistory without its check of productID. *)
getProductHistory_Unvalidated(pr, productID) ==
    /\ pc[pr] = "idle"
    /\ UNCHANGED <<products, admins, roots, blockTime, rows, inserted, stageLog,
                   mutated, lastTx>>
    /\ LET c == [IdleCall EXCEPT !.op = "getProductHistory", !.productID = productID]
           revert == GetProductHistoryError(productID)
       IN  \/ /\ revert = NoError
              /\ Finish(pr, [Returned(c) EXCEPT
                               !.history = FormatStages(products[productID].stages)])
           \/ /\ revert # NoError
              /\ Finish(pr, Threw(Noting(c, revert), revert))
           \/ Finish(pr, Threw(Noting(c, Unavailable("ledger")), Unavailable("ledger")))

(* getProductHistory: the whole operation. *)
getProductHistory(pr, productID) ==
    /\ pc[pr] = "idle"
    /\ UNCHANGED <<products, admins, roots, blockTime, rows, inserted, stageLog,
                   mutated, lastTx>>
    /\ LET c == [IdleCall EXCEPT !.op = "getProductHistory", !.productID = productID]
           revert == GetProductHistoryError(productID)
       IN  IF productID = ""
           THEN Finish(pr, Threw(c, Error("InvalidArgument", "engine", TRUE)))
           ELSE \/ /\ revert = NoError
                   /\ Finish(pr, [Returned(c) EXCEPT
                                    !.history = FormatStages(products[productID].stages)])
                \/ /\ revert # NoError
                   /\ Finish(pr, Threw(Noting(c, revert), revert))
                \/ Finish(pr, Threw(Noting(c, Unavailable("ledger")), Unavailable("ledger")))

(* ethers.isAddress *)
isAddress(address) == address \in Identities

(* grantAdminRole: the whole operation: ADMIN_ROLE(), grantRole, tx.wait(). *)
grantAdminRole(pr, wallet, address) ==
    /\ pc[pr] = "idle"
    /\ UNCHANGED <<products, roots, blockTime, rows, inserted, stageLog, mutated, lastTx>>
    /\ LET c == [IdleCall EXCEPT !.op = "grantAdminRole", !.wallet = wallet]
           revert == GrantRoleError(wallet)
       IN  IF ~isAddress(address)
           THEN /\ UNCHANGED admins
                /\ Finish(pr, Threw(c, Error("InvalidArgument", "engine", FALSE)))
           ELSE \/ /\ revert = NoError
                   /\ admins' = admins \cup {address}
                   /\ Finish(pr, Returned(c))
                \/ /\ revert # NoError
                   /\ UNCHANGED admins
                   /\ Finish(pr, Threw(Noting(c, revert), revert))
                \/ /\ UNCHANGED admins
                   /\ Finish(pr, Threw(Noting(c, Unavailable("ledger")),
                                       Unavailable("ledger")))

(* main returns and the process exits; the next command starts afresh. *)
Exit(pr) ==
    /\ pc[pr] = "done"
    /\ pc' = [pc EXCEPT ![pr] = "idle"]
    /\ res' = [res EXCEPT ![pr] = NoResult]
    /\ UNCHANGED <<unanswered, audit>>
    /\ UNCHANGED <<products, admins, roots, blockTime, rows, call, inserted, stageLog,
                   mutated, lastTx>>

-----------------------------------------------------------------------------
(* Transactions sent to the contract by any account, not through the CLI *)

ForgedHash == "0xforged"

(* The hashes a transaction sent directly can carry. *)
TxHashes == {"", ForgedHash, "0xother"}

TxRecord(op, caller, productID, productHash, stageName, e) ==
    [NoResult EXCEPT !.op = op, !.caller = caller, !.productID = productID,
                     !.productHash = productHash, !.stageName = stageName,
                     !.status = IF e = NoError THEN "returned" ELSE "threw",
                     !.error = e]

LedgerAddProduct(caller, productID, productHash) ==
    LET revert == AddProductError(caller, productID, productHash)
    IN  /\ products' = IF revert = NoError
                       THEN AddProductEffect(productID, productHash) ELSE products
        /\ lastTx' = TxRecord("addProduct", caller, productID, productHash, "", revert)
        /\ UNCHANGED <<unanswered, audit>>
        /\ UNCHANGED <<admins, roots, blockTime, rows, pc, call, res, inserted,
                       stageLog, mutated>>

(* LedgerAddStage keeping the pushed event of a transaction that reverts on *)
(* its empty stage name.                                                    *)
LedgerAddStage_PushingFirst(caller, productID, stageName) ==
    LET revert == AddStageError(caller, productID, stageName)
        pushed == revert = NoError \/ revert.kind = "InvalidArgument"
    IN  /\ pushed => StageRoom
        /\ products' = IF pushed
                       THEN AddStageEffect(caller, productID, stageName) ELSE products
        /\ stageLog' = IF pushed
                       THEN [stageLog EXCEPT ![productID] = Append(@, stageName)]
                       ELSE stageLog
        /\ lastTx' = TxRecord("addStage", caller, productID, "", stageName, revert)
        /\ UNCHANGED <<unanswered, audit>>
        /\ UNCHANGED <<admins, roots, blockTime, rows, pc, call, res, inserted, mutated>>

LedgerAddStage(caller, productID, stageName) ==
    LET revert == AddStageError(caller, productID, stageName)
    IN  /\ revert = NoError => StageRoom
        /\ products' = IF revert = NoError
                       THEN AddStageEffect(caller, productID, stageName) ELSE products
        /\ stageLog' = IF revert = NoError
                       THEN [stageLog EXCEPT ![productID] = Append(@, stageName)]
                       ELSE stageLog
        /\ lastTx' = TxRecord("addStage", caller, productID, "", stageName, revert)
        /\ UNCHANGED <<unanswered, audit>>
        /\ UNCHANGED <<admins, roots, blockTime, rows, pc, call, res, inserted, mutated>>

LedgerGrantRole(caller, account) ==
    LET revert == GrantRoleError(caller)
    IN  /\ admins' = IF revert = NoError THEN admins \cup {account} ELSE admins
        /\ lastTx' = [TxRecord("grantRole", caller, "", "", "", revert)
                         EXCEPT !.account = account]
        /\ UNCHANGED <<unanswered, audit>>
        /\ UNCHANGED <<products, roots, blockTime, rows, pc, call, res, inserted,
                       stageLog, mutated>>

(* A later block: block.timestamp never goes back. *)
NextBlock ==
    /\ blockTime < MaxBlockTime
    /\ blockTime' = blockTime + 1
    /\ UNCHANGED <<unanswered, audit>>
    /\ UNCHANGED <<products, admins, roots, rows, pc, call, res, inserted, stageLog,
                   mutated, lastTx>>

-----------------------------------------------------------------------------
(* The store is an ordinary table: anyone with database access can UPDATE   *)
(* a row.  The model changes one column of a row that is as addProduct      *)
(* inserted it, and can put the inserted row back.                          *)

Columns ==
    {"product_id", "product_type", "batch_number", "manufacturing_date", "expiry_date",
     "product_hash"}

OtherValues(row, column) ==
    CASE column = "product_id" -> {q \in ProductIDs : Select(q) = {}}
      [] column = "product_type" -> {"Ibuprofen"}
      [] column = "batch_number" -> {"B002"}
      [] column = "manufacturing_date" ->
            {OffsetString(NewDate(row[column])), toISOString(NewDate(row[column]) + 1),
             InvalidDateText}
      [] column = "expiry_date" -> {toISOString(NewDate(row[column]) + 1)}
      [] column = "product_hash" -> {ForgedHash}

(* What verifyProduct's recomputation reads from a row: the type, the batch  *)
(* and the instants its two date texts denote.                               *)
Denoted(r) ==
    <<r.product_type, r.batch_number, NewDate(r.manufacturing_date), NewDate(r.expiry_date)>>

ValidDates(r) == NewDate(r.manufacturing_date) # NaN /\ NewDate(r.expiry_date) # NaN

Update(productID, column, value) ==
    /\ Select(productID) # {}
    /\ Select(productID) = inserted[productID]
    /\ Cardinality(mutated \cup {productID}) <= MaxMutated
    /\ LET row == CHOOSE r \in Select(productID) : TRUE
       IN  /\ value \in OtherValues(row, column)
           /\ rows' = (rows \ {row}) \cup {[row EXCEPT ![column] = value]}
           /\ mutated' = mutated \cup {productID}
                            \cup (IF column = "product_id" THEN {value} ELSE {})
    /\ LET row == CHOOSE r \in Select(productID) : TRUE
           new == [row EXCEPT ![column] = value]
           \* the row stays under productID with valid dates and another type,
           \* batch or instant; any other write only rewrites it
           kind == IF /\ column # "product_id"
                      /\ ValidDates(new)
                      /\ Denoted(new) # Denoted(row)
                   THEN "mutated" ELSE "rewritten"
       IN  audit' = IF audit[productID] \in {"authentic", "restored"}
                    THEN [audit EXCEPT ![productID] = kind]
                    ELSE audit
    /\ UNCHANGED unanswered
    /\ UNCHANGED <<products, admins, roots, blockTime, pc, call, res, inserted,
                   stageLog, lastTx>>

Restore(productID) ==
    /\ inserted[productID] # {}
    /\ Select(productID) # {}
    /\ Select(productID) # inserted[productID]
    /\ rows' = (rows \ Select(productID)) \cup inserted[productID]
    /\ audit' = IF audit[productID] \in {"mutated", "rewritten"}
                THEN [audit EXCEPT ![productID] = "restored"]
                ELSE audit
    /\ UNCHANGED unanswered
    /\ UNCHANGED <<products, admins, roots, blockTime, pc, call, res, inserted,
                   stageLog, mutated, lastTx>>

-----------------------------------------------------------------------------
(* Specifications *)

(* The state the constructor and CREATE TABLE leave. *)
InitLedgerAndStore ==
    /\ products = [k \in LedgerKeys |-> NoProduct]
    /\ admins = {Deployer}
    /\ roots = {Deployer}
    /\ blockTime = 0
    /\ rows = {}
    /\ inserted = [k \in LedgerKeys |-> {}]
    /\ stageLog = [k \in LedgerKeys |-> <<>>]
    /\ mutated = {}
    /\ unanswered = FALSE
    /\ audit = [k \in LedgerKeys |-> "none"]
    /\ lastTx = NoResult

InitEngine(procs) ==
    /\ pc = [pr \in procs |-> "idle"]
    /\ call = [pr \in procs |-> IdleCall]
    /\ res = [pr \in procs |-> NoResult]

Init == InitLedgerAndStore /\ InitEngine({1})

Register ==
    \/ \E pr \in Procs, wallet \in Identities, productID \in LedgerKeys,
          productType \in ProductTypes \cup {""}, batchNumber \in BatchNumbers \cup {""},
          now \in Instants :
            addProduct(pr, wallet, productID, productType, batchNumber, now)
    \/ \E pr \in Procs : addProductTx(pr)
    \/ \E pr \in Procs : addProductInsert(pr)

Verify ==
    \/ \E pr \in Procs, productID \in LedgerKeys : verifyProduct(pr, productID)
    \/ \E pr \in Procs : verifyProductHash(pr)

GetHistory == \E pr \in Procs, productID \in LedgerKeys : getProductHistory(pr, productID)

AddStage ==
    \E pr \in Procs, wallet \in Identities, productID \in LedgerKeys,
       stageName \in StageNames \cup {""} :
        addStage(pr, wallet, productID, stageName)

GrantAdmin ==
    \E pr \in Procs, wallet \in Identities, address \in Identities \cup {"0x"} :
        grantAdminRole(pr, wallet, address)

Exits == \E pr \in Procs : Exit(pr)

OutOfBand ==
    \/ \E productID \in ProductIDs, column \in Columns,
          value \in ProductIDs \cup {"Ibuprofen", "B002", ForgedHash} \cup DateTexts :
            Update(productID, column, value)
    \/ \E productID \in ProductIDs : Restore(productID)

Next == Register \/ Verify \/ GetHistory \/ GrantAdmin \/ Exits \/ OutOfBand

Spec == Init /\ [][Next]_vars

InitHistory == InitLedgerAndStore /\ InitEngine({1})

NextHistory == Register \/ AddStage \/ GetHistory \/ Exits \/ NextBlock

SpecHistory == InitHistory /\ [][NextHistory]_vars

InitConcurrent == InitLedgerAndStore /\ InitEngine(1..NumProcs)

NextConcurrent == Register \/ Verify \/ Exits

SpecConcurrent == InitConcurrent /\ [][NextConcurrent]_vars

(* NumProcs terminals, all signing with the deployer's key, running the     *)
(* four product commands with well-formed arguments at once.                *)
InitInterleaved == InitLedgerAndStore /\ InitEngine(1..NumProcs)

NextInterleaved ==
    \/ \E pr \in Procs, productID \in ProductIDs, now \in Instants :
            addProduct(pr, Deployer, productID, "Aspirin", "B001", now)
    \/ \E pr \in Procs : addProductTx(pr)
    \/ \E pr \in Procs : addProductInsert(pr)
    \/ \E pr \in Procs, productID \in ProductIDs : verifyProduct(pr, productID)
    \/ \E pr \in Procs : verifyProductHash(pr)
    \/ \E pr \in Procs, productID \in ProductIDs :
            addStage(pr, Deployer, productID, "Packaged")
    \/ \E pr \in Procs, productID \in ProductIDs : getProductHistory(pr, productID)
    \/ Exits

SpecInterleaved == InitInterleaved /\ [][NextInterleaved]_vars

InitLedger == InitLedgerAndStore /\ InitEngine({1})

NextLedger ==
    \/ \E caller \in Identities, productID \in LedgerKeys, productHash \in TxHashes :
            LedgerAddProduct(caller, productID, productHash)
    \/ \E caller \in Identities, productID \in LedgerKeys, stageName \in StageNames \cup {""} :
            LedgerAddStage(caller, productID, stageName)
    \/ \E caller \in Identities, account \in Identities : LedgerGrantRole(caller, account)
    \/ NextBlock

SpecLedger == InitLedger /\ [][NextLedger]_vars

(* The Hardhat node is restarted and the contract deployed again: the       *)
(* ledger is as its constructor leaves it, the table keeps its rows.        *)
LedgerRestart ==
    /\ \E k \in LedgerKeys : products[k].exists
    /\ products' = [k \in LedgerKeys |-> NoProduct]
    /\ admins' = {Deployer}
    /\ roots' = {Deployer}
    /\ stageLog' = [k \in LedgerKeys |-> <<>>]
    /\ UNCHANGED <<blockTime, rows, pc, call, res, inserted, mutated, unanswered,
                   audit, lastTx>>

InitRestart == InitLedgerAndStore /\ InitEngine({1})

NextRestart == Register \/ Verify \/ Exits \/ LedgerRestart

SpecRestart == InitRestart /\ [][NextRestart]_vars

(* The five commands of the CLI, one process. *)
InitEngineOnly == InitLedgerAndStore /\ InitEngine({1})

NextEngine == Register \/ Verify \/ AddStage \/ GetHistory \/ GrantAdmin \/ Exits

SpecEngine == InitEngineOnly /\ [][NextEngine]_vars

(* The fingerprint alone: the hash as addProduct computes it from the five  *)
(* strings, then as verifyProduct recomputes it from a row holding them.    *)
CodecStrings == {"a", "ab", "bc", "c"}

CodecDates == {toISOString(t) : t \in {0, ShelfLifeYears}}

addProductHash(pr, productID, productType, batchNumber, mfgDateStr, expiryDateStr) ==
    /\ pc[pr] = "idle"
    /\ Goto(pr, "hashed",
            [IdleCall EXCEPT
                !.op = "fingerprint", !.productID = productID,
                !.productType = productType, !.batchNumber = batchNumber,
                !.mfgDateStr = mfgDateStr, !.expiryDateStr = expiryDateStr,
                !.productHash = ProductHash(productID, productType, batchNumber,
                                            mfgDateStr, expiryDateStr)])
    /\ UNCHANGED <<products, admins, roots, blockTime, rows, inserted, stageLog,
                   mutated, lastTx>>

verifyProductRehash(pr) ==
    /\ pc[pr] = "hashed"
    /\ LET c == call[pr]
           row == Row(c.productID, c.productType, c.batchNumber, c.mfgDateStr,
                      c.expiryDateStr, c.productHash)
       IN  Finish(pr, VerificationResult([c EXCEPT !.metadata = {row}], c.productHash))
    /\ UNCHANGED <<products, admins, roots, blockTime, rows, inserted, stageLog,
                   mutated, lastTx>>

InitCodec == InitLedgerAndStore /\ InitEngine(1..NumProcs)

NextCodec ==
    \/ \E pr \in Procs, productID \in CodecStrings, productType \in CodecStrings,
          batchNumber \in BatchNumbers, mfgDateStr \in CodecDates,
          expiryDateStr \in CodecDates :
            addProductHash(pr, productID, productType, batchNumber, mfgDateStr,
                           expiryDateStr)
    \/ \E pr \in Procs : verifyProductRehash(pr)
    \/ Exits

SpecCodec == InitCodec /\ [][NextCodec]_vars

-----------------------------------------------------------------------------
(* Properties *)

Done(pr, op) == pc[pr] = "done" /\ res[pr].op = op

(* Every boundary call of the finished operation was answered. *)
Answered(r) == r.boundaryError.kind # "Unavailable"

TheRow(rs) == CHOOSE r \in rs : TRUE

(* C1. Round-trip authenticity: a verifyProduct that starts after addProduct *)
(* of the same productID has returned, whose row nobody wrote out-of-band    *)
(* and whose store and ledger reads are answered, returns isAuthentic = true *)
(* with databaseHash equal to blockchainHash.                                *)
C1_RoundTrip ==
    \A pr \in Procs :
        (/\ Done(pr, "verifyProduct")
         /\ res[pr].registeredBefore
         /\ res[pr].productID \notin mutated
         /\ Answered(res[pr]))
        => /\ res[pr].status = "returned"
           /\ res[pr].isAuthentic
           /\ res[pr].databaseHash = res[pr].blockchainHash

C1_Witness ==
    \E pr \in Procs :
        /\ Done(pr, "verifyProduct")
        /\ res[pr].registeredBefore
        /\ res[pr].productID \notin mutated
        /\ res[pr].status = "returned"
        /\ res[pr].isAuthentic
        /\ res[pr].databaseHash = products[res[pr].productID].productHash

ValidArguments(r) == ~(r.error.kind = "InvalidArgument" /\ r.error.src = "engine")

(* C3. Duplicate rejection: an answered addProduct with valid arguments for  *)
(* a productID whose addProduct had already returned, and whose row nobody   *)
(* wrote out-of-band, throws AlreadyExists, and the ledger entry and the one *)
(* row of that productID are those of the first call.                        *)
C3_DuplicateRejection ==
    \A pr \in Procs :
        (/\ Done(pr, "addProduct")
         /\ res[pr].registeredBefore
         /\ res[pr].productID \notin mutated
         /\ Answered(res[pr])
         /\ ValidArguments(res[pr]))
        => /\ res[pr].status = "threw"
           /\ res[pr].error.kind = "AlreadyExists"
           /\ products[res[pr].productID].exists
           /\ products[res[pr].productID].productHash
                 = TheRow(inserted[res[pr].productID]).product_hash
           /\ Select(res[pr].productID) = inserted[res[pr].productID]

(* The ledger state the contract holds: products with their hashes and      *)
(* stage histories, and the grants of both roles.                           *)
ledger == <<products, admins, roots>>

(* C4. Authorization gate: every addProduct and addStage transaction sent by *)
(* an account without ADMIN_ROLE, whatever its arguments, reverts with       *)
(* Unauthorized and leaves products, hashes, histories and grants unchanged. *)
C4_AuthorizationGate ==
    [][(/\ lastTx' # lastTx \/ ledger' # ledger
        /\ lastTx'.op \in {"addProduct", "addStage"}
        /\ lastTx'.caller \notin admins)
       => /\ lastTx'.status = "threw"
          /\ lastTx'.error.kind = "Unauthorized"
          /\ ledger' = ledger]_vars

C4_Witness ==
    /\ lastTx.op = "addStage"
    /\ lastTx.caller \notin admins
    /\ lastTx.stageName = "Shipped"
    /\ products[lastTx.productID].exists
    /\ lastTx.error.kind = "Unauthorized"
    /\ Len(products[lastTx.productID].stages) = 1

StageNamesOf(history) == [i \in 1..Len(history) |-> history[i].stageName]

(* C5. History ordering: while every boundary call has been answered, a      *)
(* getProductHistory that returns gives exactly the stage names of the       *)
(* addStage calls of that product the ledger included, in that order, with   *)
(* timestamps that never decrease from one entry to the next.                *)
C5_HistoryOrdering ==
    \A pr \in Procs :
        (/\ Done(pr, "getProductHistory")
         /\ res[pr].status = "returned"
         /\ ~unanswered)
        => /\ StageNamesOf(res[pr].history) = stageLog[res[pr].productID]
           /\ \A i, j \in 1..Len(res[pr].history) :
                 i < j => /\ NewDate(res[pr].history[i].timestamp) # NaN
                          /\ NewDate(res[pr].history[i].timestamp)
                                <= NewDate(res[pr].history[j].timestamp)

C5_Witness ==
    \E pr \in Procs :
        /\ Done(pr, "getProductHistory")
        /\ res[pr].status = "returned"
        /\ ~unanswered
        /\ StageNamesOf(res[pr].history) = <<"Packaged", "Shipped">>
        /\ NewDate(res[pr].history[1].timestamp) < NewDate(res[pr].history[2].timestamp)

(* No addProduct ever registered productID on the ledger, and the store      *)
(* never held a row under it.                                                *)
NeverRegistered(productID) ==
    /\ ~products[productID].exists
    /\ inserted[productID] = {}
    /\ productID \notin mutated

(* C6. Missing product: for a non-empty productID that was never registered, *)
(* an answered verifyProduct and an answered getProductHistory throw         *)
(* NotFound and return nothing, and the contract's getProductHash reverts    *)
(* with NotFound.                                                            *)
C6_MissingProduct ==
    /\ \A pr \in Procs :
        (/\ pc[pr] = "done"
         /\ res[pr].op \in {"verifyProduct", "getProductHistory"}
         /\ res[pr].productID # ""
         /\ NeverRegistered(res[pr].productID)
         /\ Answered(res[pr]))
        => /\ res[pr].status = "threw"
           /\ res[pr].error.kind = "NotFound"
    /\ \A productID \in ProductIDs :
        NeverRegistered(productID) => GetProductHashError(productID).kind = "NotFound"

C6_Witness ==
    \E pr \in Procs :
        /\ Done(pr, "getProductHistory")
        /\ res[pr].productID = "P2"
        /\ NeverRegistered("P2")
        /\ products["P1"].exists
        /\ res[pr].status = "threw"
        /\ res[pr].error.kind = "NotFound"

(* All processes have finished an addProduct of the same productID with     *)
(* valid arguments under a key holding ADMIN_ROLE, none of them started      *)
(* after an addProduct of it had returned, and every boundary call so far    *)
(* was answered.                                                             *)
ConcurrentRegistrations(productID) ==
    /\ ~unanswered
    /\ \A pr \in Procs :
        /\ Done(pr, "addProduct")
        /\ res[pr].productID = productID
        /\ res[pr].caller \in admins
        /\ ValidArguments(res[pr])
        /\ ~res[pr].registeredBefore

(* C7. Concurrent registration: of the overlapping addProduct calls for one  *)
(* productID exactly one returns and every other throws AlreadyExists, and   *)
(* the ledger hash and the single row of the productID are the winner's.     *)
C7_ConcurrentRegistration ==
    \A productID \in ProductIDs :
        ConcurrentRegistrations(productID)
        => \E winner \in Procs :
              /\ res[winner].status = "returned"
              /\ \A pr \in Procs \ {winner} :
                    /\ res[pr].status = "threw"
                    /\ res[pr].error.kind = "AlreadyExists"
              /\ products[productID].productHash = res[winner].productHash
              /\ Cardinality(Select(productID)) = 1
              /\ TheRow(Select(productID)).product_hash = res[winner].productHash
              /\ Select(productID) = inserted[productID]

C7_Witness ==
    /\ ConcurrentRegistrations("P1")
    /\ \A pr \in Procs : ~res[pr].exists
    /\ res[1].status = "threw"
    /\ res[1].error.kind = "AlreadyExists"
    /\ res[2].status = "returned"
    /\ TheRow(Select("P1")).manufacturing_date = toISOString(MaxNow)

(* C8. The ledger write is the commit point: addProduct reaches its INSERT   *)
(* only from a contract.addProduct of the same productID that ran without    *)
(* revert and was confirmed; when that transaction fails in any way,         *)
(* addProduct throws and the table is unchanged; and the table changes only  *)
(* in the INSERT of an addProduct whose product is on the ledger.            *)
C8_LedgerWriteIsCommitPoint ==
    [][/\ \A pr \in Procs :
            /\ (pc[pr] # "addProduct_insert" /\ pc'[pr] = "addProduct_insert")
               => /\ pc[pr] = "addProduct_tx"
                  /\ ~products[call[pr].productID].exists
                  /\ products'[call[pr].productID].exists
                  /\ products'[call[pr].productID].productHash = call[pr].productHash
            /\ (pc[pr] = "addProduct_tx" /\ pc'[pr] = "done")
               => /\ res'[pr].status = "threw"
                  /\ res'[pr].error.src = "ledger"
                  /\ res'[pr].error.kind
                        \in {"Unauthorized", "AlreadyExists", "InvalidArgument", "Unavailable"}
                  /\ rows' = rows
       /\ rows' # rows
          => \E pr \in Procs :
                /\ pc[pr] = "addProduct_insert"
                /\ products[call[pr].productID].exists]_vars

C8_Witness ==
    \E pr \in Procs :
        /\ Done(pr, "addProduct")
        /\ res[pr].status = "threw"
        /\ res[pr].error = Unavailable("ledger")
        /\ res[pr].boundaryError = Unavailable("ledger")
        /\ ~products[res[pr].productID].exists
        /\ Select(res[pr].productID) = {}
        /\ rows # {}

(* C9. PartialCommit: an addProduct whose transaction was included and whose *)
(* INSERT failed throws an error of the kind PartialCommit, and the product  *)
(* stays on the ledger.                                                      *)
C9_PartialCommit ==
    \A pr \in Procs :
        (/\ Done(pr, "addProduct")
         /\ res[pr].boundaryError.src = "store")
        => /\ res[pr].status = "threw"
           /\ res[pr].error.kind = "PartialCommit"
           /\ products[res[pr].productID].exists

(* C10. Failure propagation: an operation one of whose ledger or store calls *)
(* failed, the productExists call of addProduct included, throws that very   *)
(* failure and returns nothing.                                              *)
C10_FailurePropagation ==
    \A pr \in Procs :
        (/\ pc[pr] = "done"
         /\ res[pr].boundaryError # NoError)
        => /\ res[pr].status = "threw"
           /\ res[pr].error = res[pr].boundaryError

(* A transaction was sent to the contract on this step. *)
Sent == lastTx' # lastTx \/ ledger' # ledger

(* C11. Capability granting: grantRole(ADMIN_ROLE, account) runs exactly for *)
(* the callers holding DEFAULT_ADMIN_ROLE, which the constructor gave to the *)
(* deployer, and then adds account to the holders of ADMIN_ROLE and nothing  *)
(* else; from every other caller, a holder of ADMIN_ROLE alone included, it  *)
(* reverts with Unauthorized and the grants are unchanged.  The holders of   *)
(* ADMIN_ROLE change in no other way, so each is the deployer or was granted *)
(* the role by a holder of DEFAULT_ADMIN_ROLE.                               *)
C11_CapabilityGranting ==
    [][/\ (Sent /\ lastTx'.op = "grantRole")
          => IF lastTx'.caller \in roots
             THEN /\ lastTx'.status = "returned"
                  /\ admins' = admins \cup {lastTx'.account}
                  /\ roots' = roots
             ELSE /\ lastTx'.status = "threw"
                  /\ lastTx'.error.kind = "Unauthorized"
                  /\ ledger' = ledger
       /\ admins' # admins
          => /\ lastTx'.op = "grantRole"
             /\ lastTx'.caller \in roots
             /\ admins' = admins \cup {lastTx'.account}
       /\ Deployer \in roots
       /\ Deployer \in admins]_vars

C11_Witness ==
    /\ lastTx.op = "grantRole"
    /\ lastTx.caller = "alice"
    /\ lastTx.caller \in admins \ roots
    /\ lastTx.account = "alice"
    /\ lastTx.error.kind = "Unauthorized"

(* C12. Fingerprint immutability: on every step a product that exists on    *)
(* the ledger still exists afterwards with the same hash, and a product      *)
(* comes to exist only by an addProduct transaction for it that ran, with    *)
(* the hash that transaction passed.                                         *)
C12_FingerprintImmutability ==
    [][\A productID \in LedgerKeys :
          /\ products[productID].exists
             => /\ products'[productID].exists
                /\ products'[productID].productHash = products[productID].productHash
          /\ (~products[productID].exists /\ products'[productID].exists)
             => /\ lastTx'.op = "addProduct"
                /\ lastTx'.status = "returned"
                /\ lastTx'.productID = productID
                /\ products'[productID].productHash = lastTx'.productHash]_vars

C12_Witness ==
    /\ lastTx.op = "addProduct"
    /\ lastTx.caller \in admins
    /\ lastTx.productID = "P1"
    /\ lastTx.productHash = "0xother"
    /\ lastTx.error.kind = "AlreadyExists"
    /\ products["P1"].productHash = ForgedHash
    /\ Len(products["P1"].stages) = MaxStages

(* C13. Single-operation atomicity: a transaction that reverts, whatever the *)
(* reason, leaves products, hashes, stage histories and role grants as they  *)
(* were.                                                                     *)
C13_RejectedChangesNothing ==
    [][(Sent /\ lastTx'.status = "threw")
       => /\ lastTx'.error.kind
                \in {"Unauthorized", "AlreadyExists", "NotFound", "InvalidArgument"}
          /\ ledger' = ledger]_vars

C13_Witness ==
    /\ lastTx.op = "addStage"
    /\ lastTx.caller \in admins
    /\ lastTx.stageName = ""
    /\ lastTx.error.kind = "InvalidArgument"
    /\ products[lastTx.productID].exists
    /\ Len(products[lastTx.productID].stages) = 1

(* C19. Append-only stage history: a product that does not exist has no     *)
(* stage events and one that comes to exist starts with none; every step     *)
(* leaves the history of each product as it was or longer by one event at    *)
(* its end, the event of the addStage transaction that ran on that step.     *)
C19_AppendOnlyHistory ==
    [][\A productID \in LedgerKeys :
          LET stages == products[productID].stages
          IN  /\ ~products[productID].exists => stages = <<>>
              /\ ~products'[productID].exists => products'[productID].stages = <<>>
              /\ (~products[productID].exists /\ products'[productID].exists)
                 => products'[productID].stages = <<>>
              /\ \/ products'[productID].stages = stages
                 \/ /\ products[productID].exists
                    /\ lastTx'.op = "addStage"
                    /\ lastTx'.status = "returned"
                    /\ lastTx'.productID = productID
                    /\ products'[productID].stages
                          = Append(stages, Stage(lastTx'.stageName, lastTx'.caller, blockTime))
       ]_vars

C19_Witness ==
    /\ lastTx.op = "addStage"
    /\ lastTx.caller \in admins
    /\ lastTx.productID = "P2"
    /\ lastTx.error.kind = "NotFound"
    /\ products["P2"].stages = <<>>
    /\ Len(products["P1"].stages) = 2
    /\ products["P1"].stages[1].stageName # products["P1"].stages[2].stageName

(* The five strings a finished fingerprint computation hashed. *)
TupleOf(r) ==
    LET row == TheRow(r.metadata)
    IN  <<row.product_id, row.product_type, row.batch_number, row.manufacturing_date,
          row.expiry_date>>

(* C14. Fingerprint determinism: for one tuple the hash verifyProduct        *)
(* recomputes is the hash addProduct computed, and the hashes of two tuples  *)
(* are equal exactly when the tuples are equal, field by field and in order. *)
C14_FingerprintDeterminism ==
    \A p, q \in Procs :
        (Done(p, "fingerprint") /\ Done(q, "fingerprint"))
        => /\ res[p].status = "returned"
           /\ res[p].databaseHash = res[p].blockchainHash
           /\ res[p].blockchainHash = TheRow(res[p].metadata).product_hash
           /\ (TupleOf(res[p]) = TupleOf(res[q]))
                 <=> (res[p].databaseHash = res[q].blockchainHash)

C14_Witness ==
    /\ \A pr \in Procs : Done(pr, "fingerprint")
    /\ TupleOf(res[1])[1] = "ab" /\ TupleOf(res[1])[2] = "c"
    /\ TupleOf(res[2])[1] = "a" /\ TupleOf(res[2])[2] = "bc"
    /\ \A i \in 3..5 : TupleOf(res[1])[i] = TupleOf(res[2])[i]
    /\ res[1].databaseHash # res[2].databaseHash

(* The hash of a row's current values, its dates as the instants they denote. *)
HashOfRow(row) ==
    ProductHash(row.product_id, row.product_type, row.batch_number,
                toISOString(NewDate(row.manufacturing_date)),
                toISOString(NewDate(row.expiry_date)))

(* C15. Verify result shape: verifyProduct goes on from its SELECT with the  *)
(* row the table holds for the productID, and whenever it returns, its       *)
(* result holds that row, the hash recomputed from the row's values, the     *)
(* hash the ledger stores, and isAuthentic true exactly when the two hashes  *)
(* are equal, also when they are not.                                        *)
C15_VerifyResultShape ==
    [][\A pr \in Procs :
          /\ (pc[pr] = "idle" /\ pc'[pr] = "verifyProduct_hash")
             => /\ call'[pr].metadata = Select(call'[pr].productID)
                /\ Cardinality(call'[pr].metadata) = 1
          /\ (pc[pr] = "verifyProduct_hash" /\ pc'[pr] = "done"
                /\ res'[pr].status = "returned")
             => /\ res'[pr].metadata = call[pr].metadata
                /\ res'[pr].databaseHash = HashOfRow(TheRow(call[pr].metadata))
                /\ res'[pr].blockchainHash = products[call[pr].productID].productHash
                /\ products[call[pr].productID].exists
                /\ res'[pr].isAuthentic
                      <=> (res'[pr].databaseHash = res'[pr].blockchainHash)]_vars

C15_Witness ==
    \E pr \in Procs :
        /\ Done(pr, "verifyProduct")
        /\ res[pr].status = "returned"
        /\ ~res[pr].isAuthentic
        /\ TheRow(res[pr].metadata).batch_number = "B002"
        /\ res[pr].databaseHash = HashOfRow(TheRow(res[pr].metadata))
        /\ res[pr].blockchainHash = products[res[pr].productID].productHash
        /\ res[pr].databaseHash # res[pr].blockchainHash

C17_ExistencePreCheck ==
    \A pr \in Procs :
        /\ pc[pr] \in {"addProduct_tx", "addProduct_insert"} => ~call[pr].exists
        /\ (Done(pr, "addProduct") /\ res[pr].exists)
           => /\ res[pr].status = "threw"
              /\ res[pr].error = Error("AlreadyExists", "engine", TRUE)

(* An operation with these arguments has an empty one among those it checks. *)
EmptyArgument(a) ==
    \/ /\ a.op = "addProduct"
       /\ a.productID = "" \/ a.productType = "" \/ a.batchNumber = ""
    \/ /\ a.op = "addStage"
       /\ a.productID = "" \/ a.stageName = ""
    \/ /\ a.op \in {"verifyProduct", "getProductHistory"}
       /\ a.productID = ""

(* C18. Input validation comes first: the step on which addProduct, addStage, *)
(* verifyProduct or getProductHistory starts with an empty argument ends it  *)
(* with InvalidArgument thrown by the engine, with no boundary call made and *)
(* the ledger and the table unchanged.                                       *)
C18_ValidationFirst ==
    [][\A pr \in Procs :
          (/\ pc[pr] = "idle"
           /\ pc'[pr] # "idle"
           /\ EmptyArgument(IF pc'[pr] = "done" THEN res'[pr] ELSE call'[pr]))
          => /\ pc'[pr] = "done"
             /\ res'[pr].status = "threw"
             /\ res'[pr].error = Error("InvalidArgument", "engine", TRUE)
             /\ res'[pr].boundaryError = NoError
             /\ unanswered' = unanswered
             /\ ledger' = ledger
             /\ rows' = rows]_vars

C18_Witness ==
    \E pr \in Procs :
        /\ Done(pr, "addStage")
        /\ res[pr].stageName = ""
        /\ res[pr].productID = "P1"
        /\ res[pr].caller \in admins
        /\ products["P1"].exists
        /\ res[pr].error = Error("InvalidArgument", "engine", TRUE)
        /\ Len(products["P1"].stages) = 1

(* C20. Ledger restart conflict: an answered addProduct with valid arguments *)
(* under a key holding ADMIN_ROLE, for a productID whose row an earlier      *)
(* addProduct inserted and which the restarted ledger no longer has, throws  *)
(* the Conflict of the primary key at its INSERT and leaves the table as it  *)
(* was; and addProduct gets to its INSERT only by the step of its            *)
(* transaction, which puts the product with its hash on the ledger.          *)
C20_RestartConflict ==
    [][\A pr \in Procs :
          /\ (/\ pc[pr] # "done"
              /\ pc'[pr] = "done"
              /\ res'[pr].op = "addProduct"
              /\ res'[pr].registeredBefore
              /\ ~res'[pr].exists
              /\ Answered(res'[pr])
              /\ res'[pr].caller \in admins
              /\ ValidArguments(res'[pr]))
             => /\ pc[pr] = "addProduct_insert"
                /\ res'[pr].status = "threw"
                /\ res'[pr].error = Error("Conflict", "store", FALSE)
                /\ Select(res'[pr].productID) # {}
                /\ rows' = rows
          /\ (pc[pr] # "addProduct_insert" /\ pc'[pr] = "addProduct_insert")
             => /\ pc[pr] = "addProduct_tx"
                /\ ~products[call[pr].productID].exists
                /\ products'[call[pr].productID].exists
                /\ products'[call[pr].productID].productHash = call[pr].productHash
       ]_vars

C20_Witness ==
    \E pr \in Procs :
        /\ Done(pr, "addProduct")
        /\ res[pr].registeredBefore
        /\ ~res[pr].exists
        /\ res[pr].error = Error("Conflict", "store", FALSE)
        /\ products[res[pr].productID].exists
        /\ Cardinality(Select(res[pr].productID)) = 1
        /\ products[res[pr].productID].productHash
              # TheRow(Select(res[pr].productID)).product_hash

(* C21: with NumProcs terminals registering, verifying, appending stages   *)
(* and reading histories in any interleaving, nobody writing to the store  *)
(* out-of-band and the ledger never reset, every row of the store is of a  *)
(* product the ledger has registered, under the fingerprint the row holds  *)
(* and that its fingerprinted columns hash to; and every verifyProduct of  *)
(* a product id whose boundary calls were answered either threw the        *)
(* store's NotFound or returned isAuthentic = TRUE with two equal          *)
(* fingerprints: never isAuthentic = FALSE, never the ledger's NotFound.   *)
C21_StoreImpliesLedger ==
    /\ \A row \in rows :
          /\ productExists(row.product_id)
          /\ products[row.product_id].productHash = row.product_hash
          /\ HashOfRow(row) = row.product_hash
    /\ \A productID \in ProductIDs : Cardinality(Select(productID)) <= 1
    /\ \A pr \in Procs :
          Done(pr, "verifyProduct") /\ Answered(res[pr]) /\ res[pr].productID # ""
          => \/ /\ res[pr].status = "threw"
                /\ res[pr].error = Error("NotFound", "store", TRUE)
             \/ /\ res[pr].status = "returned"
                /\ res[pr].isAuthentic
                /\ res[pr].databaseHash = res[pr].blockchainHash

(* P1 has a row that a verifyProduct found authentic and a stage on the    *)
(* ledger; terminal 1 has just verified P2, which the ledger has and the   *)
(* store does not, and terminal 2 has read the history of P1.              *)
C21_Witness ==
    /\ Select("P1") # {}
    /\ audit["P1"] = "authentic"
    /\ Len(products["P1"].stages) > 0
    /\ productExists("P2") /\ Select("P2") = {}
    /\ Done(1, "verifyProduct") /\ Answered(res[1]) /\ res[1].productID = "P2"
    /\ res[1].error = Error("NotFound", "store", TRUE)
    /\ Done(2, "getProductHistory") /\ res[2].status = "returned"
    /\ res[2].productID = "P1"

(* The ledger has productID registered, the store has no row of it and no  *)
(* addProduct is about to insert one.                                      *)
PartialCommit(productID) ==
    /\ productExists(productID)
    /\ Select(productID) = {}
    /\ \A pr \in Procs :
          ~(pc[pr] = "addProduct_insert" /\ call[pr].productID = productID)

(* C22: once a product is on the ledger without a store row, no step of    *)
(* the engine ends that: the product stays registered and without a row.   *)
(* Every addProduct for it that finishes has thrown and inserted nothing,  *)
(* every verifyProduct for it whose SELECT was answered throws the store's *)
(* NotFound, every addStage for it signed by an admin with a stage name    *)
(* and answered by the ledger returns with the stage appended, and every   *)
(* answered getProductHistory for it returns its stages.                   *)
C22_PartialCommitIsPermanent ==
    [][\A productID \in ProductIDs :
          PartialCommit(productID)
          => /\ PartialCommit(productID)'
             /\ products'[productID].productHash = products[productID].productHash
             /\ \A pr \in Procs :
                   (pc[pr] # "done" /\ pc'[pr] = "done"
                      /\ res'[pr].productID = productID)
                   => LET r == res'[pr]
                      IN  /\ r.op = "addProduct"
                             => r.status = "threw" /\ rows' = rows
                          /\ (r.op = "verifyProduct" /\ Answered(r))
                             => /\ r.status = "threw"
                                /\ r.error = Error("NotFound", "store", TRUE)
                          /\ (r.op = "addStage" /\ Answered(r) /\ onlyAdmin(r.caller)
                                /\ r.stageName # "")
                             => /\ r.status = "returned"
                                /\ StageNamesOf(products'[productID].stages)
                                     = Append(StageNamesOf(products[productID].stages),
                                              r.stageName)
                          /\ (r.op = "getProductHistory" /\ Answered(r))
                             => /\ r.status = "returned"
                                /\ r.history = FormatStages(products[productID].stages)
      ]_vars

(* P1 is on the ledger without a row and has had a stage appended since;   *)
(* a later addProduct of P1 by an admin was refused by the contract.       *)
C22_Witness ==
    /\ PartialCommit("P1")
    /\ Len(products["P1"].stages) > 0
    /\ Done(1, "addProduct") /\ res[1].productID = "P1"
    /\ res[1].status = "threw"
    /\ res[1].error = Error("AlreadyExists", "ledger", TRUE)
    /\ res[1].exists
====
